---------------------------- MODULE Spec2Model ----------------------------
(***************************************************************************)
(* Model of backend/server.js: a REST backend that keeps its records in    *)
(* the sheets of one spreadsheet.  A sheet is a sequence of rows, row 1 is *)
(* the header.  Every request handler is a sequence of steps separated by  *)
(* its awaits on the remote storage calls (values.get, values.append,      *)
(* values.update, batchUpdate/deleteDimension); the steps of different     *)
(* requests interleave freely.                                             *)
(*                                                                         *)
(* Cell values are JavaScript values.  A value is a record                 *)
(*   [t |-> "num" | "str" | "bool" | "undef" | "nan" | "neginf",           *)
(*    n |-> the number (or 0/1 for a boolean), s |-> the string]           *)
(* so that String(), parseInt(), ===, || are computed as JavaScript does.  *)
(* The storage service is taken to hand back the values it was given.      *)
(***************************************************************************)
EXTENDS Integers, Sequences, FiniteSets, TLC

\* ------------------------------------------------------------------ bounds
MaxRequests == 2
MaxInitRows == 2

\* --------------------------------------------------------- JavaScript values
Num(n)  == [t |-> "num", n |-> n, s |-> ""]
Str(cs) == [t |-> "str", n |-> 0, s |-> cs]
Bool(b) == [t |-> "bool", n |-> IF b THEN 1 ELSE 0, s |-> ""]
Undef   == [t |-> "undef", n |-> 0, s |-> ""]
NaN     == [t |-> "nan", n |-> 0, s |-> ""]
NegInf  == [t |-> "neginf", n |-> 0, s |-> ""]

Digits == <<"0", "1", "2", "3", "4", "5", "6", "7", "8", "9">>

IsDigit(c) == \E i \in 1..10 : Digits[i] = c

DigitVal(c) == (CHOOSE i \in 1..10 : Digits[i] = c) - 1

RECURSIVE ToDec(_)
ToDec(n) == IF n < 10 THEN Digits[n + 1]
            ELSE ToDec(n \div 10) \o Digits[(n % 10) + 1]

\* String(v)
JSString(v) ==
    CASE v.t = "num"    -> IF v.n < 0 THEN "-" \o ToDec(0 - v.n) ELSE ToDec(v.n)
      [] v.t = "str"    -> v.s
      [] v.t = "bool"   -> IF v.n = 1 THEN "true"
                           ELSE "false"
      [] v.t = "undef"  -> "undefined"
      [] v.t = "nan"    -> "NaN"
      [] v.t = "neginf" -> "-Infinity"

RECURSIVE SkipSpaces(_)
SkipSpaces(cs) == IF Len(cs) > 0 /\ Head(cs) = " " THEN SkipSpaces(Tail(cs)) ELSE cs

RECURSIVE DigitPrefixLen(_)
DigitPrefixLen(cs) == IF Len(cs) > 0 /\ IsDigit(Head(cs))
                      THEN 1 + DigitPrefixLen(Tail(cs)) ELSE 0

RECURSIVE DecValue(_, _)
DecValue(cs, acc) == IF Len(cs) = 0 THEN acc
                     ELSE DecValue(Tail(cs), (acc * 10) + DigitVal(Head(cs)))

\* parseInt(v): String(v), leading blanks skipped, an optional sign, then the
\* longest run of decimal digits; NaN when there is no digit.
ParseInt(v) ==
    LET cs   == SkipSpaces(JSString(v))
        neg  == Len(cs) > 0 /\ Head(cs) = "-"
        body == IF Len(cs) > 0 /\ Head(cs) \in {"-", "+"} THEN Tail(cs) ELSE cs
        k    == DigitPrefixLen(body)
        mag  == DecValue(SubSeq(body, 1, k), 0)
    IN  IF k = 0 THEN NaN ELSE Num(IF neg THEN 0 - mag ELSE mag)

\* parseFloat(v) on values without a fractional part or an exponent
ParseFloat(v) == ParseInt(v)

\* truthiness of a value
Truthy(v) ==
    CASE v.t = "num"    -> v.n # 0
      [] v.t = "str"    -> Len(v.s) > 0
      [] v.t = "bool"   -> v.n = 1
      [] v.t = "undef"  -> FALSE
      [] v.t = "nan"    -> FALSE
      [] v.t = "neginf" -> TRUE

\* a || b
JSOr(a, b) == IF Truthy(a) THEN a ELSE b

\* a === b  (NaN is not equal to itself)
StrictEq(a, b) == a.t # "nan" /\ a = b

\* a + 1 on numbers
PlusOne(v) == IF v.t = "num" THEN Num(v.n + 1) ELSE v

\* a < b on numbers and -Infinity
NumLess(a, b) ==
    CASE a.t = "neginf"             -> b.t = "num"
      [] a.t = "num" /\ b.t = "num" -> a.n < b.n
      [] OTHER                      -> FALSE

\* Math.max(...vs): -Infinity for an empty list
RECURSIVE MathMax(_)
MathMax(vs) ==
    IF Len(vs) = 0 THEN NegInf
    ELSE LET rest == MathMax(Tail(vs))
         IN  IF NumLess(rest, Head(vs)) THEN Head(vs) ELSE rest

\* ----------------------------------------------------------- rows, objects
\* row[i] of a JavaScript array, 0-based index i
Cell(row, i) == IF i >= 0 /\ i < Len(row) THEN row[i + 1] ELSE Undef

\* array.indexOf(x): first 0-based position that is === x, or -1
IndexOf(arr, x) ==
    IF \E i \in 1..Len(arr) : StrictEq(arr[i], x)
    THEN (CHOOSE i \in 1..Len(arr) :
              /\ StrictEq(arr[i], x)
              /\ \A j \in 1..(i - 1) : ~StrictEq(arr[j], x)) - 1
    ELSE -1

\* An object is the sequence of its <<key, value>> properties in insertion
\* order; keys are strings.
ObjHas(obj, key) == \E i \in 1..Len(obj) : obj[i][1] = key

ObjGet(obj, key) ==
    IF ObjHas(obj, key)
    THEN obj[CHOOSE i \in 1..Len(obj) : obj[i][1] = key][2]
    ELSE Undef

\* obj[key] = value
ObjSet(obj, key, value) ==
    IF ObjHas(obj, key)
    THEN [i \in 1..Len(obj) |-> IF obj[i][1] = key THEN <<key, value>> ELSE obj[i]]
    ELSE Append(obj, <<key, value>>)

\* delete every property whose value is undefined
RECURSIVE DropUndefined(_)
DropUndefined(obj) ==
    IF Len(obj) = 0 THEN <<>>
    ELSE IF Head(obj)[2] = Undef THEN DropUndefined(Tail(obj))
         ELSE <<Head(obj)>> \o DropUndefined(Tail(obj))

RECURSIVE ZipRow(_, _, _, _)
ZipRow(headers, row, i, obj) ==
    IF i >= Len(headers) THEN obj
    ELSE ZipRow(headers, row, i + 1,
                ObjSet(obj, JSString(headers[i + 1]), Cell(row, i)))

\* a mapping that skips the rows shorter than the header
rowsToObjectsOfFullRows(sheetData) ==
    IF Len(sheetData) = 0 THEN <<>>
    ELSE LET full(row) == Len(row) >= Len(sheetData[1])
             rows == SelectSeq(Tail(sheetData), full)
         IN  [i \in 1..Len(rows) |-> ZipRow(sheetData[1], rows[i], 0, <<>>)]

rowsToObjects(sheetData) ==
    IF Len(sheetData) = 0 THEN <<>>
    ELSE [i \in 1..(Len(sheetData) - 1) |->
              ZipRow(sheetData[1], sheetData[i + 1], 0, <<>>)]

K_id        == "id"
K_name      == "name"
K_price     == "price"
K_is_active == "is_active"

\* a find that answers the last matching record instead of the first
FindObjIndexLast(objs, id) ==
    LET hits == {i \in 1..Len(objs) : JSString(ObjGet(objs[i], K_id)) = JSString(id)}
    IN  IF hits = {} THEN 0 ELSE CHOOSE i \in hits : \A h \in hits : h <= i

\* objs.find(o => String(o.id) === String(id)): 1-based position or 0
FindObjIndex(objs, id) ==
    IF \E i \in 1..Len(objs) : JSString(ObjGet(objs[i], K_id)) = JSString(id)
    THEN CHOOSE i \in 1..Len(objs) :
             /\ JSString(ObjGet(objs[i], K_id)) = JSString(id)
             /\ \A j \in 1..(i - 1) : JSString(ObjGet(objs[j], K_id)) # JSString(id)
    ELSE 0

\* objs.length > 0 ? Math.max(...objs.map(o => parseInt(o.id) || 0)) + 1 : 1
NewId(objs) ==
    IF Len(objs) > 0
    THEN PlusOne(MathMax([i \in 1..Len(objs) |->
                              JSOr(ParseInt(ObjGet(objs[i], K_id)), Num(0))]))
    ELSE Num(1)

\* ------------------------------------------------------------ the storage
\* spreadsheets.values.get: the rows of the sheet ("|| []" included)
ValuesGet(sheet) == sheet

\* an append that refuses a row whose first cell some row already carries
ValuesAppendUnlessCarried(sheet, row) ==
    IF \E i \in 1..Len(sheet) : JSString(Cell(sheet[i], 0)) = JSString(Cell(row, 0))
    THEN sheet
    ELSE Append(sheet, row)

\* an append that puts the row right under the header instead of after the
\* last row
ValuesAppendUnderHeader(sheet, row) ==
    IF Len(sheet) = 0 THEN <<row>>
    ELSE <<sheet[1], row>> \o Tail(sheet)

\* spreadsheets.values.append with INSERT_ROWS: one row after the last row
ValuesAppend(sheet, row) == Append(sheet, row)

\* one row after spreadsheets.values.update wrote `row` over `old` from column
\* A on: an undefined cell of `row` (a hole of the array) leaves the old cell
OverlayRow(old, row) ==
    [i \in 1..(IF Len(old) > Len(row) THEN Len(old) ELSE Len(row)) |->
        IF i <= Len(row) /\ row[i] # Undef THEN row[i]
        ELSE IF i <= Len(old) THEN old[i] ELSE Undef]

\* spreadsheets.values.update at range `sheet!A<rowInSheet>` (1-based); a
\* position past the last row leaves blank rows in between
ValuesUpdate(sheet, rowInSheet, row) ==
    [i \in 1..(IF rowInSheet > Len(sheet) THEN rowInSheet ELSE Len(sheet)) |->
        IF i = rowInSheet
        THEN OverlayRow(IF i <= Len(sheet) THEN sheet[i] ELSE <<>>, row)
        ELSE IF i <= Len(sheet) THEN sheet[i] ELSE <<>>]

\* a deleteDimension that takes startIndex for a 1-based row number and so
\* removes the row above the one addressed
DeleteDimensionRowAbove(sheet, startIndex) ==
    IF startIndex > Len(sheet) \/ startIndex < 1 THEN sheet
    ELSE [i \in 1..(Len(sheet) - 1) |->
              IF i < startIndex THEN sheet[i] ELSE sheet[i + 1]]

\* deleteDimension ROWS [startIndex, startIndex + 1) (0-based): later rows
\* move up; a position past the last row removes a blank row of the grid
DeleteDimension(sheet, startIndex) ==
    IF startIndex + 1 > Len(sheet) THEN sheet
    ELSE [i \in 1..(Len(sheet) - 1) |->
              IF i <= startIndex THEN sheet[i] ELSE sheet[i + 1]]

\* ------------------------------------------------------- the record store
\* updateRowById with the "rowIndexInRowsArray === -1" exit left out: a miss
\* goes on with the first data row
UpdateLocateNoMissExit(data, id) ==
    IF Len(data) = 0 THEN [err |-> "SchemaError", index |-> -1]
    ELSE LET headers == data[1]
             rows    == Tail(data)
             idColumnIndex == IndexOf(headers, Str(K_id))
             Match(i) == JSString(Cell(rows[i], idColumnIndex)) = JSString(id)
         IN  IF idColumnIndex = -1 THEN [err |-> "SchemaError", index |-> -1]
             ELSE IF \E i \in 1..Len(rows) : Match(i)
                  THEN [err |-> "",
                        index |-> (CHOOSE i \in 1..Len(rows) :
                                      Match(i) /\ \A j \in 1..(i - 1) : ~Match(j)) - 1]
                  ELSE IF Len(rows) > 0 THEN [err |-> "", index |-> 0]
                  ELSE [err |-> "NotFound", index |-> -1]

\* updateRowById, from the read to the computed row position: the outcome
\* [err, index] with index the 0-based position among the data rows
UpdateLocate(data, id) ==
    IF Len(data) = 0 THEN [err |-> "SchemaError", index |-> -1]
    ELSE LET headers == data[1]
             rows    == Tail(data)
             idColumnIndex == IndexOf(headers, Str(K_id))
             Match(i) == JSString(Cell(rows[i], idColumnIndex)) = JSString(id)
         IN  IF idColumnIndex = -1 THEN [err |-> "SchemaError", index |-> -1]
             ELSE IF \E i \in 1..Len(rows) : Match(i)
                  THEN [err |-> "",
                        index |-> (CHOOSE i \in 1..Len(rows) :
                                      Match(i) /\ \A j \in 1..(i - 1) : ~Match(j)) - 1]
                  ELSE [err |-> "NotFound", index |-> -1]

\* updatedRow[headerIndex] = value on a JavaScript array (0-based index)
SetCell(row, index, value) ==
    [i \in 1..(IF index + 1 > Len(row) THEN index + 1 ELSE Len(row)) |->
        IF i = index + 1 THEN value
        ELSE IF i <= Len(row) THEN row[i] ELSE Undef]

\* the body of "for (const key in newFields)"
MergeKey(headers, updatedRow, key, value) ==
    LET headerIndex == IndexOf(headers, Str(key))
    IN  IF headerIndex # -1 THEN SetCell(updatedRow, headerIndex, value)
        ELSE updatedRow

\* updatedRow = [...existingRow] with every key of newFields merged in
RECURSIVE MergeFields(_, _, _)
MergeFields(headers, existingRow, newFields) ==
    IF Len(newFields) = 0 THEN existingRow
    ELSE MergeFields(headers,
                     MergeKey(headers, existingRow, Head(newFields)[1], Head(newFields)[2]),
                     Tail(newFields))

\* deleteRowById with the two schema exits left out: findIndex then runs on
\* whatever the sheet holds and misses
DeleteLocateNoSchemaExit(data, id) ==
    LET headers == IF Len(data) = 0 THEN <<>> ELSE data[1]
        rows    == IF Len(data) = 0 THEN <<>> ELSE Tail(data)
        idColumnIndex == IndexOf(headers, Str(K_id))
        Match(i) == JSString(Cell(rows[i], idColumnIndex)) = JSString(id)
    IN  IF \E i \in 1..Len(rows) : Match(i)
        THEN [err |-> "",
              index |-> (CHOOSE i \in 1..Len(rows) :
                            Match(i) /\ \A j \in 1..(i - 1) : ~Match(j)) - 1]
        ELSE [err |-> "NotFound", index |-> -1]

\* deleteRowById, from the read to the computed row position
DeleteLocate(data, id) ==
    IF Len(data) = 0 THEN [err |-> "SchemaError", index |-> -1]
    ELSE LET headers == data[1]
             rows    == Tail(data)
             idColumnIndex == IndexOf(headers, Str(K_id))
             Match(i) == JSString(Cell(rows[i], idColumnIndex)) = JSString(id)
         IN  IF idColumnIndex = -1 THEN [err |-> "SchemaError", index |-> -1]
             ELSE IF \E i \in 1..Len(rows) : Match(i)
                  THEN [err |-> "",
                        index |-> (CHOOSE i \in 1..Len(rows) :
                                      Match(i) /\ \A j \in 1..(i - 1) : ~Match(j)) - 1]
                  ELSE [err |-> "NotFound", index |-> -1]

\* sheetIndex: data.indexOf(headers), with headers = data[0] of a read that
\* returned at least the header row
DeleteSheetIndex == 0

\* ------------------------------------------------------------------ state
VARIABLES
    sheets,   \* sheet name -> its rows, the header row first
    tabs,     \* the sheets of the spreadsheet in tab order (index 0 first)
    started,  \* number of requests received so far
    req,      \* request number -> the request
    pc,       \* request number -> the await the handler is suspended at
    loc,      \* request number -> the handler's local variables
    resp,     \* request number -> the response sent (status 0: none yet)
    calls     \* request number -> the storage calls issued, in order

vars == <<sheets, tabs, started, req, pc, loc, resp, calls>>

ReqIds == 1..MaxRequests

SheetNames == {"products", "orders", "order_items", "users", "nutrition_plans",
               "appointments"}

NoReq  == [op |-> "none", sheet |-> "none", id |-> Undef, body |-> <<>>]
NoLoc  == [rowInSheet |-> 0, row |-> <<>>, newId |-> Undef, items |-> <<>>,
           total |-> Undef, maxId |-> Undef]
NoResp == [status |-> 0, err |-> "", rec |-> <<>>, list |-> <<>>, id |-> Undef]

Call(kind, sheet, ok) == [kind |-> kind, sheet |-> sheet, ok |-> ok]

\* res.status(status).json(...): the error kind, and the record or the
\* generated id of the body
Reply(status, err, rec, id) ==
    [status |-> status, err |-> err, rec |-> rec, list |-> <<>>, id |-> id]

\* res.json(records) of a list endpoint
ListReply(recs) == [NoResp EXCEPT !.status = 200, !.list = recs]

\* a catch block that swallows the error and answers 200
CatchReplySwallow(err) == Reply(200, "", <<>>, Undef)

\* the catch block of a handler: status 500
CatchReply(err) == Reply(500, err, <<>>, Undef)

\* A request takes effect from its first storage call on: its arrival, the
\* synchronous start of its handler and that first call are one step.  The
\* step also drops the records of the requests answered before it.
Enter(rq, label, l, r, cs) ==
    /\ started < MaxRequests
    /\ started' = started + 1
    /\ req' = [k \in ReqIds |-> IF k = started + 1 THEN rq
                                ELSE IF pc[k] = "done" THEN NoReq ELSE req[k]]
    /\ pc' = [k \in ReqIds |-> IF k = started + 1 THEN label
                               ELSE IF pc[k] = "done" THEN "gone" ELSE pc[k]]
    /\ loc' = [k \in ReqIds |-> IF k = started + 1 THEN l
                                ELSE IF pc[k] = "done" THEN NoLoc ELSE loc[k]]
    /\ resp' = [k \in ReqIds |-> IF k = started + 1 THEN r
                                 ELSE IF pc[k] = "done" THEN NoResp ELSE resp[k]]
    /\ calls' = [k \in ReqIds |-> IF k = started + 1 THEN cs
                                  ELSE IF pc[k] = "done" THEN <<>> ELSE calls[k]]
    /\ UNCHANGED <<sheets, tabs>>

\* a later await of request k: the storage call, then on to `label`
Resume(k, call, label, l, r) ==
    /\ calls' = [calls EXCEPT ![k] = Append(@, call)]
    /\ pc' = [pc EXCEPT ![k] = label]
    /\ loc' = [loc EXCEPT ![k] = l]
    /\ resp' = [resp EXCEPT ![k] = r]
    /\ UNCHANGED <<tabs, started, req>>

\* no request is between its first storage call and its response
Quiet == \A k \in ReqIds : pc[k] \in {"idle", "done", "gone"}

\* ------------------------------------------------------------------ inputs
Tea    == Str("Tea")
Coffee == Str("Coffee")

\* an id no row carries
AbsentId == Str("99")

\* the ids a client may put in the URL: the first cell of every data row, the
\* id the last response announced, and AbsentId
UrlIds(sheet) ==
    {Str(JSString(Cell(sheets[sheet][i], 0))) : i \in 2..Len(sheets[sheet])}
        \cup {Str(JSString(resp[j].id)) : j \in {j \in ReqIds : resp[j].id # Undef}}
        \cup {AbsentId}

PostBodies ==
    { << <<K_name, Coffee>>, <<K_price, Str("7")>> >>,
      << <<K_name, Tea>>, <<K_price, Num(5)>>, <<K_is_active, Bool(FALSE)>> >>,
      << <<K_name, Coffee>> >> }

PutBodies ==
    { << <<K_name, Coffee>>, <<K_price, Str("8")>> >> }

\* --------------------------------------------------------------- products
\* GET /api/products after the read
ProductsList ==
    \E ok \in BOOLEAN :
        LET data == ValuesGet(sheets["products"])
        IN  Enter([op |-> "list", sheet |-> "products", id |-> Undef, body |-> <<>>],
                  "done",
                  NoLoc,
                  IF ok THEN ListReply(rowsToObjects(data))
                  ELSE CatchReply("StorageUnavailable"),
                  <<Call("read", "products", ok)>>)

\* GET /api/products/:id after the read
GetByIdReply(data, id) ==
    LET objs == rowsToObjects(data)
        at   == FindObjIndex(objs, id)
    IN  IF at = 0 THEN Reply(404, "NotFound", <<>>, Undef)
        ELSE Reply(200, "", objs[at], Undef)

ProductsGet ==
    \E id \in UrlIds("products"), ok \in BOOLEAN :
        LET data == ValuesGet(sheets["products"])
        IN  Enter([op |-> "get", sheet |-> "products", id |-> id, body |-> <<>>],
                  "done",
                  NoLoc,
                  IF ok THEN GetByIdReply(data, id)
                  ELSE CatchReply("StorageUnavailable"),
                  <<Call("read", "products", ok)>>)

\* POST /api/products: "!name || !price"
PostInvalid(body) == ~Truthy(ObjGet(body, K_name)) \/ ~Truthy(ObjGet(body, K_price))

\* productsAsObjects.some(p => p.name === name)
NameTaken(objs, name) ==
    \E i \in 1..Len(objs) : StrictEq(ObjGet(objs[i], K_name), name)

\* newProductData, the columns id, name, price, is_active
NewProductData(newId, body) ==
    <<newId,
      ObjGet(body, K_name),
      ParseFloat(ObjGet(body, K_price)),
      IF ObjGet(body, K_is_active) = Undef THEN Bool(TRUE) ELSE ObjGet(body, K_is_active)>>

\* POST /api/products up to its append call
ProductsPost ==
    \E body \in PostBodies, ok \in BOOLEAN :
        LET rq   == [op |-> "post", sheet |-> "products", id |-> Undef, body |-> body]
            data == ValuesGet(sheets["products"])
            objs == rowsToObjects(data)
            read == <<Call("read", "products", ok)>>
        IN  IF PostInvalid(body)
            THEN ok /\ Enter(rq, "done", NoLoc, Reply(400, "Validation", <<>>, Undef), <<>>)
            ELSE IF ~ok
            THEN Enter(rq, "done", NoLoc, CatchReply("StorageUnavailable"), read)
            ELSE IF NameTaken(objs, ObjGet(body, K_name))
            THEN Enter(rq, "done", NoLoc,
                       Reply(409, "UniquenessViolation", <<>>, Undef), read)
            ELSE Enter(rq, "post_append",
                       [NoLoc EXCEPT !.newId = NewId(objs),
                                     !.row = NewProductData(NewId(objs), body)],
                       NoResp, read)

\* the appendRow call of an insert, and the 201 response
PostAppend(k) ==
    /\ pc[k] = "post_append"
    /\ \E ok \in BOOLEAN :
        /\ sheets' = [sheets EXCEPT ![req[k].sheet] =
                          IF ok THEN ValuesAppend(@, loc[k].row) ELSE @]
        /\ Resume(k, Call("append", req[k].sheet, ok), "done", loc[k],
                  IF ok THEN Reply(201, "", <<>>, loc[k].newId)
                  ELSE CatchReply("StorageUnavailable"))

\* PUT /api/products/:id: updatedFields with the undefined ones deleted
ProductUpdatedFields(body) ==
    DropUndefined(<<
        <<K_name, ObjGet(body, K_name)>>,
        <<K_price, IF Truthy(ObjGet(body, K_price))
                   THEN ParseFloat(ObjGet(body, K_price)) ELSE Undef>>,
        <<K_is_active, ObjGet(body, K_is_active)>> >>)

\* updateRowById(sheet, id, newFields) up to its update call
UpdateRowByIdBegin(rq, newFields, ok) ==
    LET data  == ValuesGet(sheets[rq.sheet])
        found == UpdateLocate(data, rq.id)
        read  == <<Call("read", rq.sheet, ok)>>
    IN  IF ~ok
        THEN Enter(rq, "done", NoLoc, CatchReply("StorageUnavailable"), read)
        ELSE IF found.err # ""
        THEN Enter(rq, "done", NoLoc, CatchReply(found.err), read)
        ELSE Enter(rq, "upd_write",
                   [NoLoc EXCEPT !.rowInSheet = found.index + 2,
                                 !.row = MergeFields(data[1], data[found.index + 2],
                                                     newFields)],
                   NoResp, read)

ProductsPut ==
    \E id \in UrlIds("products"), body \in PutBodies, ok \in BOOLEAN :
        UpdateRowByIdBegin([op |-> "put", sheet |-> "products", id |-> id, body |-> body],
                           ProductUpdatedFields(body), ok)

\* an update that looks the row up again at its write and writes where the id
\* is now
UpdateWriteWhereIdIsNow(k) ==
    /\ pc[k] = "upd_write"
    /\ \E ok \in BOOLEAN :
        LET now == UpdateLocate(sheets[req[k].sheet], req[k].id)
        IN  /\ sheets' = [sheets EXCEPT ![req[k].sheet] =
                              IF ok /\ now.err = ""
                              THEN ValuesUpdate(@, now.index + 2, loc[k].row) ELSE @]
            /\ Resume(k, Call("update", req[k].sheet, ok), "done", loc[k],
                      IF ok /\ now.err = "" THEN Reply(200, "", <<>>, Undef)
                      ELSE CatchReply("StorageUnavailable"))

\* the values.update call of updateRowById, and the 200 response
UpdateWrite(k) ==
    /\ pc[k] = "upd_write"
    /\ \E ok \in BOOLEAN :
        /\ sheets' = [sheets EXCEPT ![req[k].sheet] =
                          IF ok THEN ValuesUpdate(@, loc[k].rowInSheet, loc[k].row) ELSE @]
        /\ Resume(k, Call("update", req[k].sheet, ok), "done", loc[k],
                  IF ok THEN Reply(200, "", <<>>, Undef)
                  ELSE CatchReply("StorageUnavailable"))

\* deleteRowById(sheet, id) up to its batchUpdate call
DeleteRowByIdBegin(rq, ok) ==
    LET data  == ValuesGet(sheets[rq.sheet])
        found == DeleteLocate(data, rq.id)
        read  == <<Call("read", rq.sheet, ok)>>
    IN  IF ~ok
        THEN Enter(rq, "done", NoLoc, CatchReply("StorageUnavailable"), read)
        ELSE IF found.err # ""
        THEN Enter(rq, "done", NoLoc, CatchReply(found.err), read)
        ELSE Enter(rq, "del_write", [NoLoc EXCEPT !.rowInSheet = found.index + 2],
                   NoResp, read)

ProductsDelete ==
    \E id \in UrlIds("products"), ok \in BOOLEAN :
        DeleteRowByIdBegin([op |-> "delete", sheet |-> "products", id |-> id,
                            body |-> <<>>], ok)

\* the batchUpdate call of deleteRowById, and the 200 response: the
\* deleteDimension request names its sheet by the index DeleteSheetIndex, so
\* the row goes from the tab at that index, whatever req[k].sheet is
DeleteWrite(k) ==
    /\ pc[k] = "del_write"
    /\ \E ok \in BOOLEAN :
        /\ sheets' = [sheets EXCEPT ![tabs[DeleteSheetIndex + 1]] =
                          IF ok THEN DeleteDimension(@, loc[k].rowInSheet - 1) ELSE @]
        /\ Resume(k, Call("delete", req[k].sheet, ok), "done", loc[k],
                  IF ok THEN Reply(200, "", <<>>, Undef)
                  ELSE CatchReply("StorageUnavailable"))

\* ---------------------------------------------- direct record-store calls
\* what a caller may hand to updateRowById as newFields
StorePayloads ==
    { << <<K_name, Coffee>> >>,
      << <<K_id, Num(7)>>, <<K_price, Num(8)>> >>,
      << <<"color", Str("red")>>, <<K_is_active, Bool(FALSE)>> >> }

\* updateRowById(sheet, id, newFields) called as a function
StoreUpdate ==
    \E id \in UrlIds("products"), newFields \in StorePayloads, ok \in BOOLEAN :
        UpdateRowByIdBegin([op |-> "update", sheet |-> "products", id |-> id,
                            body |-> newFields], newFields, ok)

\* ----------------------------------------------------------------- orders
K_user_id     == "user_id"
K_total       == "total_amount"
K_order_id    == "order_id"
K_product_id  == "product_id"
K_quantity    == "quantity"

\* the user id of the token
TokenUserId == Num(1)

\* req.body.items of POST /api/orders
OrderBodies ==
    { << << <<K_product_id, Num(1)>>, <<K_quantity, Num(2)>> >> >>,
      << << <<K_product_id, Str("1")>>, <<K_quantity, Str("1")>> >>,
         << <<K_product_id, Num(1)>>, <<K_quantity, Num(3)>> >> >>,
      << << <<K_product_id, Num(3)>>, <<K_quantity, Num(1)>> >> >>,
      << << <<K_product_id, Num(1)>>, <<K_quantity, Num(0)>> >> >>,
      << >> }

\* a * b and a + b on the numbers of the model
Times(a, b) == IF a.t = "num" /\ b.t = "num" THEN Num(a.n * b.n) ELSE NaN
Plus(a, b)  == IF a.t = "num" /\ b.t = "num" THEN Num(a.n + b.n) ELSE NaN

\* the validation loop: TRUE when some item makes the handler answer 400
ItemRejected(products, item) ==
    LET at        == FindObjIndex(products, ObjGet(item, K_product_id))
        itemPrice == ParseFloat(ObjGet(products[at], K_price))
        quantity  == ParseInt(ObjGet(item, K_quantity))
    IN  \/ at = 0
        \/ ~Truthy(ObjGet(products[at], K_is_active))
        \/ itemPrice.t = "nan"
        \/ quantity.t = "nan"
        \/ quantity.n <= 0

\* orderItemsData: product_id, quantity, price_at_purchase of every item
OrderItemsData(products, items) ==
    [i \in 1..Len(items) |->
        [product_id |-> ObjGet(items[i], K_product_id),
         quantity   |-> ParseInt(ObjGet(items[i], K_quantity)),
         price      |-> ParseFloat(ObjGet(
                            products[FindObjIndex(products, ObjGet(items[i], K_product_id))],
                            K_price))]]

\* totalAmount
RECURSIVE TotalAmount(_)
TotalAmount(data) ==
    IF Len(data) = 0 THEN Num(0)
    ELSE Plus(Times(Head(data).price, Head(data).quantity), TotalAmount(Tail(data)))

\* POST /api/orders up to its read of the orders sheet
OrdersPost ==
    \E items \in OrderBodies, ok \in BOOLEAN :
        LET rq       == [op |-> "order", sheet |-> "orders", id |-> Undef, body |-> items]
            products == rowsToObjects(ValuesGet(sheets["products"]))
            read     == <<Call("read", "products", ok)>>
            invalid  == Reply(400, "Validation", <<>>, Undef)
        IN  IF Len(items) = 0
            THEN ok /\ Enter(rq, "done", NoLoc, invalid, <<>>)
            ELSE IF ~ok
            THEN Enter(rq, "done", NoLoc, CatchReply("StorageUnavailable"), read)
            ELSE IF \E i \in 1..Len(items) : ItemRejected(products, items[i])
            THEN Enter(rq, "done", NoLoc, invalid, read)
            ELSE Enter(rq, "ord_read_orders",
                       [NoLoc EXCEPT !.items = OrderItemsData(products, items),
                                     !.total = TotalAmount(OrderItemsData(products, items))],
                       NoResp, read)

\* ordersAsObjects.length > 0 ? Math.max(...ordersAsObjects.map(o => parseInt(o.id) || 0)) + 1 : 1
NewOrderId(objs) ==
    IF Len(objs) > 0
    THEN PlusOne(MathMax([i \in 1..Len(objs) |->
                              JSOr(ParseInt(ObjGet(objs[i], K_id)), Num(0))]))
    ELSE Num(1)

\* the read of the orders sheet, newOrderId and newOrderData (the columns id,
\* user_id, total_amount)
OrdReadOrders(k) ==
    /\ pc[k] = "ord_read_orders"
    /\ \E ok \in BOOLEAN :
        LET newOrderId == NewOrderId(rowsToObjects(ValuesGet(sheets["orders"])))
        IN  Resume(k, Call("read", "orders", ok),
                   IF ok THEN "ord_append_order" ELSE "done",
                   IF ok THEN [loc[k] EXCEPT !.newId = newOrderId,
                                             !.row = <<newOrderId, TokenUserId, loc[k].total>>]
                   ELSE loc[k],
                   IF ok THEN NoResp ELSE CatchReply("StorageUnavailable"))
    /\ UNCHANGED sheets

\* appendRow('orders', newOrderData)
OrdAppendOrder(k) ==
    /\ pc[k] = "ord_append_order"
    /\ \E ok \in BOOLEAN :
        /\ sheets' = [sheets EXCEPT !["orders"] =
                          IF ok THEN ValuesAppend(@, loc[k].row) ELSE @]
        /\ Resume(k, Call("append", "orders", ok),
                  IF ok THEN "ord_read_items" ELSE "done", loc[k],
                  IF ok THEN NoResp ELSE CatchReply("StorageUnavailable"))

\* existingOrderItems.length > 0
\*   ? Math.max(...rowsToObjects(existingOrderItems).map(oi => parseInt(oi.id) || 0)) : 0
CurrentOrderItemMaxId(existingOrderItems) ==
    IF Len(existingOrderItems) > 0
    THEN LET objs == rowsToObjects(existingOrderItems)
         IN  MathMax([i \in 1..Len(objs) |->
                          JSOr(ParseInt(ObjGet(objs[i], K_id)), Num(0))])
    ELSE Num(0)

\* the read of the order_items sheet
OrdReadItems(k) ==
    /\ pc[k] = "ord_read_items"
    /\ \E ok \in BOOLEAN :
        Resume(k, Call("read", "order_items", ok),
               IF ok THEN "ord_append_item" ELSE "done",
               IF ok THEN [loc[k] EXCEPT !.maxId =
                               CurrentOrderItemMaxId(ValuesGet(sheets["order_items"]))]
               ELSE loc[k],
               IF ok THEN NoResp ELSE CatchReply("StorageUnavailable"))
    /\ UNCHANGED sheets

\* the row of one item: the columns id, order_id, product_id, quantity
OrderItemRow(itemId, newOrderId, item) ==
    <<itemId, newOrderId, item.product_id, item.quantity>>

\* a loop turn that takes the orders row back when its append fails
OrdAppendItemWithRollback(k) ==
    /\ pc[k] = "ord_append_item"
    /\ \E ok \in BOOLEAN :
        LET itemId == PlusOne(loc[k].maxId)
            last   == Len(loc[k].items) = 1
        IN  /\ sheets' = [sheets EXCEPT
                              !["order_items"] =
                                  IF ok THEN ValuesAppend(@, OrderItemRow(itemId, loc[k].newId,
                                                                          Head(loc[k].items)))
                                  ELSE @,
                              !["orders"] =
                                  IF ok THEN @ ELSE SubSeq(@, 1, Len(@) - 1)]
            /\ Resume(k, Call("append", "order_items", ok),
                      IF ok /\ ~last THEN "ord_append_item" ELSE "done",
                      IF ok THEN [loc[k] EXCEPT !.maxId = itemId, !.items = Tail(@)]
                      ELSE loc[k],
                      IF ~ok THEN CatchReply("StorageUnavailable")
                      ELSE IF last THEN Reply(201, "", <<>>, loc[k].newId)
                      ELSE NoResp)

\* one turn of the loop: currentOrderItemMaxId++, then appendRow; the 201
\* response after the last item
OrdAppendItem(k) ==
    /\ pc[k] = "ord_append_item"
    /\ \E ok \in BOOLEAN :
        LET itemId == PlusOne(loc[k].maxId)
            last   == Len(loc[k].items) = 1
        IN  /\ sheets' = [sheets EXCEPT !["order_items"] =
                              IF ok THEN ValuesAppend(@, OrderItemRow(itemId, loc[k].newId,
                                                                      Head(loc[k].items)))
                              ELSE @]
            /\ Resume(k, Call("append", "order_items", ok),
                      IF ok /\ ~last THEN "ord_append_item" ELSE "done",
                      IF ok THEN [loc[k] EXCEPT !.maxId = itemId, !.items = Tail(@)]
                      ELSE loc[k],
                      IF ~ok THEN CatchReply("StorageUnavailable")
                      ELSE IF last THEN Reply(201, "", <<>>, loc[k].newId)
                      ELSE NoResp)

\* --------------------------------------------------------- reading orders
\* req.user.role of the token
Roles == {"client", "admin"}

\* orderItems.filter(item => String(item.order_id) === String(order.id))
RECURSIVE ItemsOfOrder(_, _)
ItemsOfOrder(orderItems, order) ==
    IF Len(orderItems) = 0 THEN <<>>
    ELSE (IF JSString(ObjGet(Head(orderItems), K_order_id)) = JSString(ObjGet(order, K_id))
          THEN <<Head(orderItems)>> ELSE <<>>)
         \o ItemsOfOrder(Tail(orderItems), order)

\* ordersAsObjects.filter(o => String(o.user_id) === String(req.user.id))
RECURSIVE OrdersOfUser(_, _)
OrdersOfUser(orders, userId) ==
    IF Len(orders) = 0 THEN <<>>
    ELSE (IF JSString(ObjGet(Head(orders), K_user_id)) = JSString(userId)
          THEN <<Head(orders)>> ELSE <<>>)
         \o OrdersOfUser(Tail(orders), userId)

\* GET /api/orders/:id up to its read of order_items; the order found is
\* kept in loc.row
OrdersGet ==
    \E id \in UrlIds("orders"), role \in Roles, ok \in BOOLEAN :
        LET rq   == [op |-> "order_get", sheet |-> "orders", id |-> id, body |-> <<>>]
            objs == rowsToObjects(ValuesGet(sheets["orders"]))
            at   == FindObjIndex(objs, id)
            read == <<Call("read", "orders", ok)>>
        IN  IF ~ok
            THEN Enter(rq, "done", NoLoc, CatchReply("StorageUnavailable"), read)
            ELSE IF at = 0
            THEN Enter(rq, "done", NoLoc, Reply(404, "NotFound", <<>>, Undef), read)
            ELSE IF role = "client"
                    /\ JSString(ObjGet(objs[at], K_user_id)) # JSString(TokenUserId)
            THEN Enter(rq, "done", NoLoc, Reply(403, "Forbidden", <<>>, Undef), read)
            ELSE Enter(rq, "oget_items", [NoLoc EXCEPT !.row = objs[at]], NoResp, read)

\* the read of order_items and res.json(order): the order in rec, its items
\* in list
OrdGetItems(k) ==
    /\ pc[k] = "oget_items"
    /\ \E ok \in BOOLEAN :
        LET orderItems == rowsToObjects(ValuesGet(sheets["order_items"]))
        IN  Resume(k, Call("read", "order_items", ok), "done", loc[k],
                   IF ok THEN [Reply(200, "", loc[k].row, Undef)
                                   EXCEPT !.list = ItemsOfOrder(orderItems, loc[k].row)]
                   ELSE CatchReply("StorageUnavailable"))
    /\ UNCHANGED sheets

\* GET /api/orders (no user_id query) up to its read of order_items; the
\* orders to answer are kept in loc.items
OrdersList ==
    \E role \in Roles, ok \in BOOLEAN :
        LET rq   == [op |-> "order_list", sheet |-> "orders", id |-> Undef, body |-> <<>>]
            objs == rowsToObjects(ValuesGet(sheets["orders"]))
            read == <<Call("read", "orders", ok)>>
        IN  IF ~ok
            THEN Enter(rq, "done", NoLoc, CatchReply("StorageUnavailable"), read)
            ELSE Enter(rq, "olist_items",
                       [NoLoc EXCEPT !.items = IF role = "client"
                                               THEN OrdersOfUser(objs, TokenUserId)
                                               ELSE objs],
                       NoResp, read)

\* the read of order_items and res.json(ordersAsObjects): every order with
\* its items
OrdListItems(k) ==
    /\ pc[k] = "olist_items"
    /\ \E ok \in BOOLEAN :
        LET orderItems == rowsToObjects(ValuesGet(sheets["order_items"]))
        IN  Resume(k, Call("read", "order_items", ok), "done", loc[k],
                   IF ok THEN ListReply([i \in 1..Len(loc[k].items) |->
                                  [order |-> loc[k].items[i],
                                   items |-> ItemsOfOrder(orderItems, loc[k].items[i])]])
                   ELSE CatchReply("StorageUnavailable"))
    /\ UNCHANGED sheets

\* --------------------------------------------------------- deleting orders
\* orderItems.filter(item => String(item.order_id) === String(id))
RECURSIVE ItemsToDelete(_, _)
ItemsToDelete(orderItems, id) ==
    IF Len(orderItems) = 0 THEN <<>>
    ELSE (IF JSString(ObjGet(Head(orderItems), K_order_id)) = JSString(id)
          THEN <<Head(orderItems)>> ELSE <<>>)
         \o ItemsToDelete(Tail(orderItems), id)

\* DELETE /api/orders/:id up to the first call of its loop, or of the delete
\* of the orders row when the order has no item; the ids of itemsToDelete
\* still to go are kept in loc.items
OrdersDelete ==
    \E id \in UrlIds("orders"), ok \in BOOLEAN :
        LET rq   == [op |-> "order_delete", sheet |-> "orders", id |-> id, body |-> <<>>]
            objs == rowsToObjects(ValuesGet(sheets["order_items"]))
            itemsToDelete == ItemsToDelete(objs, id)
            read == <<Call("read", "order_items", ok)>>
        IN  IF ~ok
            THEN Enter(rq, "done", NoLoc, CatchReply("StorageUnavailable"), read)
            ELSE Enter(rq,
                       IF Len(itemsToDelete) > 0 THEN "odel_item_read" ELSE "odel_order_read",
                       [NoLoc EXCEPT !.items = [i \in 1..Len(itemsToDelete) |->
                                                    ObjGet(itemsToDelete[i], K_id)]],
                       NoResp, read)

\* deleteRowById('order_items', item.id) up to its batchUpdate call
OrdDelItemRead(k) ==
    /\ pc[k] = "odel_item_read"
    /\ \E ok \in BOOLEAN :
        LET found == DeleteLocate(ValuesGet(sheets["order_items"]), Head(loc[k].items))
            fine  == ok /\ found.err = ""
        IN  Resume(k, Call("read", "order_items", ok),
                   IF fine THEN "odel_item_write" ELSE "done",
                   IF fine THEN [loc[k] EXCEPT !.rowInSheet = found.index + 2] ELSE loc[k],
                   IF fine THEN NoResp
                   ELSE IF ok THEN CatchReply(found.err)
                   ELSE CatchReply("StorageUnavailable"))
    /\ UNCHANGED sheets

\* the batchUpdate call of deleteRowById('order_items', item.id), then the
\* next turn of the loop or on to deleteRowById('orders', id); the row goes
\* from the tab at index DeleteSheetIndex
OrdDelItemWrite(k) ==
    /\ pc[k] = "odel_item_write"
    /\ \E ok \in BOOLEAN :
        /\ sheets' = [sheets EXCEPT ![tabs[DeleteSheetIndex + 1]] =
                          IF ok THEN DeleteDimension(@, loc[k].rowInSheet - 1) ELSE @]
        /\ Resume(k, Call("delete", "order_items", ok),
                  IF ~ok THEN "done"
                  ELSE IF Len(loc[k].items) > 1 THEN "odel_item_read"
                  ELSE "odel_order_read",
                  IF ok THEN [loc[k] EXCEPT !.items = Tail(@)] ELSE loc[k],
                  IF ok THEN NoResp ELSE CatchReply("StorageUnavailable"))

\* deleteRowById('orders', id) up to its batchUpdate call, which is
\* DeleteWrite
OrdDelOrderRead(k) ==
    /\ pc[k] = "odel_order_read"
    /\ \E ok \in BOOLEAN :
        LET found == DeleteLocate(ValuesGet(sheets["orders"]), req[k].id)
            fine  == ok /\ found.err = ""
        IN  Resume(k, Call("read", "orders", ok),
                   IF fine THEN "del_write" ELSE "done",
                   IF fine THEN [loc[k] EXCEPT !.rowInSheet = found.index + 2] ELSE loc[k],
                   IF fine THEN NoResp
                   ELSE IF ok THEN CatchReply(found.err)
                   ELSE CatchReply("StorageUnavailable"))
    /\ UNCHANGED sheets

\* ----------------------------------------------------------- appointments
K_date   == "appointment_date"
K_status == "status"

\* req.user of the token: two clients and an administrator
Tokens ==
    { [id |-> Num(1), role |-> "client"],
      [id |-> Num(2), role |-> "client"],
      [id |-> Num(3), role |-> "admin"] }

\* req.body of PUT /api/appointments/:id
AppointmentPutBodies ==
    { << <<K_date, Str("fri")>>, <<K_status, Str("confirmed")>> >> }

\* updatedFields: a client's status is deleted, then the undefined fields
AppointmentUpdatedFields(body, role) ==
    DropUndefined(<<
        <<K_date, ObjGet(body, K_date)>>,
        <<K_status, IF role = "client" THEN Undef ELSE ObjGet(body, K_status)>> >>)

\* the find and the ownership check of PUT and DELETE /api/appointments/:id
\* on the rows read: the status to answer, 0 to go on
AppointmentCheck(data, id, user) ==
    LET objs == rowsToObjects(data)
        at   == FindObjIndex(objs, id)
    IN  IF at = 0 THEN 404
        ELSE IF user.role = "client"
                /\ JSString(ObjGet(objs[at], K_user_id)) # JSString(user.id)
        THEN 403
        ELSE 0

\* a handler of /api/appointments/:id up to the read of the store function
\* it calls
AppointmentBegin(rq, label, ok) ==
    LET check == AppointmentCheck(ValuesGet(sheets["appointments"]), rq.id, rq.user)
        read  == <<Call("read", "appointments", ok)>>
    IN  IF ~ok
        THEN Enter(rq, "done", NoLoc, CatchReply("StorageUnavailable"), read)
        ELSE IF check = 404
        THEN Enter(rq, "done", NoLoc, Reply(404, "NotFound", <<>>, Undef), read)
        ELSE IF check = 403
        THEN Enter(rq, "done", NoLoc, Reply(403, "Forbidden", <<>>, Undef), read)
        ELSE Enter(rq, label, NoLoc, NoResp, read)

\* PUT /api/appointments/:id up to the read of updateRowById
AppointmentsPut ==
    \E id \in UrlIds("appointments"), user \in Tokens, body \in AppointmentPutBodies,
       ok \in BOOLEAN :
        AppointmentBegin([op |-> "appt_put", sheet |-> "appointments", id |-> id,
                          body |-> body, user |-> user], "appt_upd_read", ok)

\* DELETE /api/appointments/:id up to the read of deleteRowById
AppointmentsDelete ==
    \E id \in UrlIds("appointments"), user \in Tokens, ok \in BOOLEAN :
        AppointmentBegin([op |-> "appt_delete", sheet |-> "appointments", id |-> id,
                          body |-> <<>>, user |-> user], "appt_del_read", ok)

\* updateRowById('appointments', id, updatedFields) up to its update call,
\* which is UpdateWrite
ApptUpdRead(k) ==
    /\ pc[k] = "appt_upd_read"
    /\ \E ok \in BOOLEAN :
        LET data  == ValuesGet(sheets["appointments"])
            found == UpdateLocate(data, req[k].id)
            fine  == ok /\ found.err = ""
        IN  Resume(k, Call("read", "appointments", ok),
                   IF fine THEN "upd_write" ELSE "done",
                   IF fine
                   THEN [loc[k] EXCEPT
                            !.rowInSheet = found.index + 2,
                            !.row = MergeFields(data[1], data[found.index + 2],
                                        AppointmentUpdatedFields(req[k].body,
                                                                 req[k].user.role))]
                   ELSE loc[k],
                   IF fine THEN NoResp
                   ELSE IF ok THEN CatchReply(found.err)
                   ELSE CatchReply("StorageUnavailable"))
    /\ UNCHANGED sheets

\* deleteRowById('appointments', id) up to its batchUpdate call, which is
\* DeleteWrite
ApptDelRead(k) ==
    /\ pc[k] = "appt_del_read"
    /\ \E ok \in BOOLEAN :
        LET found == DeleteLocate(ValuesGet(sheets["appointments"]), req[k].id)
            fine  == ok /\ found.err = ""
        IN  Resume(k, Call("read", "appointments", ok),
                   IF fine THEN "del_write" ELSE "done",
                   IF fine THEN [loc[k] EXCEPT !.rowInSheet = found.index + 2] ELSE loc[k],
                   IF fine THEN NoResp
                   ELSE IF ok THEN CatchReply(found.err)
                   ELSE CatchReply("StorageUnavailable"))
    /\ UNCHANGED sheets

AppointmentsHeader == <<Str(K_id), Str(K_user_id), Str(K_date), Str(K_status)>>

\* the i-th appointment booked: the two clients take turns
SeedAppointment(i) ==
    <<Num(i), Num(IF i % 2 = 0 THEN 1 ELSE 2), Str("d" \o ToDec(i)), Str("pending")>>

SeedAppointments(n) == [i \in 1..n |-> SeedAppointment(i)]

\* ------------------------------------------------ users, nutrition plans
K_username == "username"
K_email    == "email"
K_password == "password"
K_role     == "role"
K_duration == "duration_minutes"

Ann == Str("ann")
Bob == Str("bob")
MailA == Str("a@x")
MailB == Str("b@x")
Keto == Str("Keto")

\* req.body of POST /api/auth/register
RegisterBodies ==
    { << <<K_username, Ann>>, <<K_email, MailA>>, <<K_password, Str("pw")>> >>,
      << <<K_username, Bob>>, <<K_email, MailA>>, <<K_password, Str("pw")>> >>,
      << <<K_username, Ann>>, <<K_email, MailB>>, <<K_password, Str("pw")>> >>,
      << <<K_username, Bob>>, <<K_email, MailB>> >> }

\* "!username || !email || !password"
RegisterInvalid(body) ==
    \/ ~Truthy(ObjGet(body, K_username))
    \/ ~Truthy(ObjGet(body, K_email))
    \/ ~Truthy(ObjGet(body, K_password))

\* a registration without the email pre-check
EmailTakenNotChecked(objs, email) == FALSE

\* usersAsObjects.some(user => user.email === email)
EmailTaken(objs, email) ==
    \E i \in 1..Len(objs) : StrictEq(ObjGet(objs[i], K_email), email)

\* usersAsObjects.some(user => user.username === username)
UsernameTaken(objs, username) ==
    \E i \in 1..Len(objs) : StrictEq(ObjGet(objs[i], K_username), username)

\* newUserData, the columns id, username, email, role (role = 'client' when
\* the body has none)
NewUserData(newId, body) ==
    <<newId,
      ObjGet(body, K_username),
      ObjGet(body, K_email),
      IF ObjGet(body, K_role) = Undef THEN Str("client") ELSE ObjGet(body, K_role)>>

\* POST /api/auth/register up to its append call; the await on bcrypt.hash
\* touches no sheet and is part of the append step
Register ==
    \E body \in RegisterBodies, ok \in BOOLEAN :
        LET rq   == [op |-> "register", sheet |-> "users", id |-> Undef, body |-> body]
            objs == rowsToObjects(ValuesGet(sheets["users"]))
            read == <<Call("read", "users", ok)>>
            dup  == Reply(409, "UniquenessViolation", <<>>, Undef)
        IN  IF RegisterInvalid(body)
            THEN ok /\ Enter(rq, "done", NoLoc, Reply(400, "Validation", <<>>, Undef), <<>>)
            ELSE IF ~ok
            THEN Enter(rq, "done", NoLoc, CatchReply("StorageUnavailable"), read)
            ELSE IF EmailTaken(objs, ObjGet(body, K_email))
            THEN Enter(rq, "done", NoLoc, dup, read)
            ELSE IF UsernameTaken(objs, ObjGet(body, K_username))
            THEN Enter(rq, "done", NoLoc, dup, read)
            ELSE Enter(rq, "reg_append",
                       [NoLoc EXCEPT !.newId = NewId(objs),
                                     !.row = NewUserData(NewId(objs), body)],
                       NoResp, read)

\* an append step that looks at the sheet again and refuses an email some
\* row already carries
RegAppendAfterRecheck(k) ==
    /\ pc[k] = "reg_append"
    /\ \E ok \in BOOLEAN :
        LET taken == EmailTaken(rowsToObjects(sheets["users"]), loc[k].row[3])
        IN  /\ sheets' = [sheets EXCEPT !["users"] =
                              IF ok /\ ~taken THEN ValuesAppend(@, loc[k].row) ELSE @]
            /\ Resume(k, Call("append", "users", ok), "done", loc[k],
                      IF ~ok THEN CatchReply("StorageUnavailable")
                      ELSE IF taken THEN Reply(409, "UniquenessViolation", <<>>, Undef)
                      ELSE Reply(201, "", <<>>, loc[k].newId))

\* appendRow('users', newUserData) and the 201 response
RegAppend(k) ==
    /\ pc[k] = "reg_append"
    /\ \E ok \in BOOLEAN :
        /\ sheets' = [sheets EXCEPT !["users"] =
                          IF ok THEN ValuesAppend(@, loc[k].row) ELSE @]
        /\ Resume(k, Call("append", "users", ok), "done", loc[k],
                  IF ok THEN Reply(201, "", <<>>, loc[k].newId)
                  ELSE CatchReply("StorageUnavailable"))

\* req.body of PUT /api/users/:id
UserPutBodies ==
    { << <<K_email, MailA>> >>,
      << <<K_username, Bob>>, <<K_role, Str("admin")>> >>,
      << <<K_username, Str("cy")>>, <<K_email, Str("c@x")>> >> }

\* PUT /api/users/:id: updatedFields with the undefined ones deleted
UserUpdatedFields(body) ==
    DropUndefined(<<
        <<K_username, ObjGet(body, K_username)>>,
        <<K_email, ObjGet(body, K_email)>>,
        <<K_role, ObjGet(body, K_role)>> >>)

\* authorizeRoles('admin') answers 403 before the handler runs
NotAdmin(rq) ==
    Enter(rq, "done", NoLoc, Reply(403, "Forbidden", <<>>, Undef), <<>>)

\* PUT /api/users/:id up to the update call of updateRowById
UsersPut ==
    \E id \in UrlIds("users"), body \in UserPutBodies, user \in Tokens, ok \in BOOLEAN :
        LET rq == [op |-> "user_put", sheet |-> "users", id |-> id, body |-> body,
                   user |-> user]
        IN  IF user.role # "admin" THEN ok /\ NotAdmin(rq)
            ELSE UpdateRowByIdBegin(rq, UserUpdatedFields(body), ok)

\* DELETE /api/users/:id up to the batchUpdate call of deleteRowById
UsersDelete ==
    \E id \in UrlIds("users"), user \in Tokens, ok \in BOOLEAN :
        LET rq == [op |-> "user_delete", sheet |-> "users", id |-> id, body |-> <<>>,
                   user |-> user]
        IN  IF user.role # "admin" THEN ok /\ NotAdmin(rq)
            ELSE DeleteRowByIdBegin(rq, ok)

\* req.body of POST /api/nutrition-plans
PlanBodies ==
    { << <<K_name, Keto>>, <<K_price, Num(30)>>, <<K_duration, Str("60")>> >>,
      << <<K_name, Str("Vegan")>>, <<K_price, Num(20)>>, <<K_duration, Num(45)>> >>,
      << <<K_name, Keto>>, <<K_price, Num(30)>> >> }

\* "!name || !price || !duration_minutes"
PlanInvalid(body) ==
    \/ ~Truthy(ObjGet(body, K_name))
    \/ ~Truthy(ObjGet(body, K_price))
    \/ ~Truthy(ObjGet(body, K_duration))

\* newPlanData, the columns id, name, price, duration_minutes
NewPlanData(newId, body) ==
    <<newId,
      ObjGet(body, K_name),
      ParseFloat(ObjGet(body, K_price)),
      ParseInt(ObjGet(body, K_duration))>>

\* POST /api/nutrition-plans up to its append call
PlansPost ==
    \E body \in PlanBodies, ok \in BOOLEAN :
        LET rq   == [op |-> "plan_post", sheet |-> "nutrition_plans", id |-> Undef,
                     body |-> body]
            objs == rowsToObjects(ValuesGet(sheets["nutrition_plans"]))
            read == <<Call("read", "nutrition_plans", ok)>>
        IN  IF PlanInvalid(body)
            THEN ok /\ Enter(rq, "done", NoLoc, Reply(400, "Validation", <<>>, Undef), <<>>)
            ELSE IF ~ok
            THEN Enter(rq, "done", NoLoc, CatchReply("StorageUnavailable"), read)
            ELSE IF NameTaken(objs, ObjGet(body, K_name))
            THEN Enter(rq, "done", NoLoc,
                       Reply(409, "UniquenessViolation", <<>>, Undef), read)
            ELSE Enter(rq, "post_append",
                       [NoLoc EXCEPT !.newId = NewId(objs),
                                     !.row = NewPlanData(NewId(objs), body)],
                       NoResp, read)

UsersHeader == <<Str(K_id), Str(K_username), Str(K_email), Str(K_role)>>
PlansHeader == <<Str(K_id), Str(K_name), Str(K_price), Str(K_duration)>>

SeedUsers == <<UsersHeader, <<Num(1), Ann, MailA, Str("admin")>> >>
SeedPlans == <<PlansHeader, <<Num(1), Keto, Num(30), Num(60)>> >>

\* the i-th user registered
SeedUser(i) ==
    IF i = 1 THEN <<Num(1), Ann, MailA, Str("admin")>>
    ELSE IF i = 2 THEN <<Num(2), Bob, MailB, Str("client")>>
    ELSE <<Num(i), Str("u" \o ToDec(i)), Str("m" \o ToDec(i)), Str("client")>>

SeedUserRows(n) == [i \in 1..n |-> SeedUser(i)]

\* the users, nutrition_plans and appointments sheets where a run does not
\* vary them
SeedSheet(s) ==
    IF s = "users" THEN SeedUsers
    ELSE IF s = "nutrition_plans" THEN SeedPlans
    ELSE <<AppointmentsHeader>> \o SeedAppointments(1)

\* ------------------------------------------------------------ initial state
ProductsHeader == <<Str(K_id), Str(K_name), Str(K_price), Str(K_is_active)>>

\* a header row that names no column "id"
NoIdHeader == <<Str("ID"), Str(K_name), Str(K_price), Str(K_is_active)>>

\* the i-th product ever inserted: ids 1, "3", 5, "7", ... (the gaps are
\* deleted rows; a text id is what a hand-edited or re-read cell holds)
SeedProduct(i) ==
    <<IF i % 2 = 0 THEN Str(ToDec((2 * i) - 1)) ELSE Num((2 * i) - 1),
      IF i = 1 THEN Tea ELSE Str("P" \o ToDec(i)),
      Num(i + 3),
      Bool(i # 2)>>

\* the first n seed rows, in insertion order
SeedRows(n) == [i \in 1..n |-> SeedProduct(i)]

InitProducts ==
    {<<>>, <<NoIdHeader, SeedProduct(1)>>}
        \cup {<<ProductsHeader>> \o SeedRows(n) : n \in 0..MaxInitRows}

OrdersHeader == <<Str(K_id), Str(K_user_id), Str(K_total)>>
OrderItemsHeader == <<Str(K_id), Str(K_order_id), Str(K_product_id), Str(K_quantity)>>

SeedOrders ==
    <<OrdersHeader, <<Num(1), Num(1), Num(8)>>, <<Num(2), Num(1), Num(4)>>,
      <<Num(3), Num(2), Num(12)>> >>

SeedOrderItems ==
    <<OrderItemsHeader, <<Num(1), Num(1), Num(1), Num(2)>>, <<Num(2), Num(2), Num(1), Num(1)>>,
      <<Num(4), Num(3), Num(1), Num(3)>> >>

InitRequests ==
    /\ started = 0
    /\ req = [k \in ReqIds |-> NoReq]
    /\ pc = [k \in ReqIds |-> "idle"]
    /\ loc = [k \in ReqIds |-> NoLoc]
    /\ resp = [k \in ReqIds |-> NoResp]
    /\ calls = [k \in ReqIds |-> <<>>]

Init ==
    /\ InitRequests
    /\ tabs \in {<<"products", "orders", "order_items">>,
                 <<"orders", "products", "order_items">>}
    /\ \E p \in InitProducts :
           sheets = [s \in SheetNames |->
                        IF s = "products" THEN p
                        ELSE IF s = "orders" THEN SeedOrders
                        ELSE IF s = "order_items" THEN <<OrderItemsHeader>>
                    ELSE SeedSheet(s)]

\* requests interleave at their awaits
Next ==
    \/ ProductsList
    \/ ProductsGet
    \/ ProductsPost
    \/ ProductsPut
    \/ ProductsDelete
    \/ \E k \in ReqIds : PostAppend(k)
    \/ \E k \in ReqIds : UpdateWrite(k)
    \/ \E k \in ReqIds : DeleteWrite(k)

Spec == Init /\ [][Next]_vars

\* requests do not overlap: the first storage call of a request comes after
\* the last one of every earlier request
NextSeq ==
    \/ Quiet /\ ProductsList
    \/ Quiet /\ ProductsGet
    \/ Quiet /\ ProductsPost
    \/ Quiet /\ ProductsPut
    \/ Quiet /\ ProductsDelete
    \/ \E k \in ReqIds : PostAppend(k)
    \/ \E k \in ReqIds : UpdateWrite(k)
    \/ \E k \in ReqIds : DeleteWrite(k)

SpecSeq == Init /\ [][NextSeq]_vars

\* updateRowById called directly, one call after the other
NextStore ==
    \/ Quiet /\ StoreUpdate
    \/ Quiet /\ ProductsGet
    \/ \E k \in ReqIds : UpdateWrite(k)

SpecStore == Init /\ [][NextStore]_vars

\* order creation, one request after the other
InitOrders ==
    /\ InitRequests
    /\ tabs = <<"products", "orders", "order_items">>
    /\ \E o \in {<<OrdersHeader>>, SeedOrders},
          oi \in {<<>>, <<OrderItemsHeader>>, SeedOrderItems} :
           sheets = [s \in SheetNames |->
                        IF s = "products" THEN <<ProductsHeader>> \o SeedRows(MaxInitRows)
                        ELSE IF s = "orders" THEN o
                        ELSE IF s = "order_items" THEN oi
                        ELSE SeedSheet(s)]

NextOrders ==
    \/ Quiet /\ OrdersPost
    \/ \E k \in ReqIds : OrdReadOrders(k)
    \/ \E k \in ReqIds : OrdAppendOrder(k)
    \/ \E k \in ReqIds : OrdReadItems(k)
    \/ \E k \in ReqIds : OrdAppendItem(k)

SpecOrders == InitOrders /\ [][NextOrders]_vars

\* ------------------------------------------------------------ properties
\* the 0-based id column of a sheet, -1 when the sheet is empty or its header
\* has none
IdColumn(sheet) == IF Len(sheet) = 0 THEN -1 ELSE IndexOf(sheet[1], Str(K_id))

\* the id of data row i (i >= 2) of a sheet, as the string ids are compared by
IdOfRow(sheet, i) == JSString(Cell(sheet[i], IdColumn(sheet)))

\* some data row of the sheet carries the id
CarriesId(sheet, id) == \E i \in 2..Len(sheet) : IdOfRow(sheet, i) = JSString(id)

\* parseInt(v) || 0 as an integer
IntOrZero(v) == IF ParseInt(v).t = "num" THEN ParseInt(v).n ELSE 0

\* 1 + the largest id of the data rows, 1 when there is none
NextIdOf(sheet) ==
    IF Len(sheet) <= 1 THEN Num(1)
    ELSE LET ids == {IntOrZero(Cell(sheet[i], IdColumn(sheet))) : i \in 2..Len(sheet)}
         IN  Num(1 + CHOOSE m \in ids : \A n \in ids : n <= m)

\* the values of a record, in column order
ValuesOf(rec) == [i \in 1..Len(rec) |-> rec[i][2]]

\* the sheet without its row at position i
RemoveAt(sheet, i) ==
    [j \in 1..(Len(sheet) - 1) |-> IF j < i THEN sheet[j] ELSE sheet[j + 1]]

\* the position of the first data row carrying the id
RowOf(sheet, id) ==
    CHOOSE i \in 2..Len(sheet) :
        /\ IdOfRow(sheet, i) = JSString(id)
        /\ \A j \in 2..(i - 1) : IdOfRow(sheet, j) # JSString(id)

\* request k is the one that arrives in this step
Arrives(k) == pc[k] = "idle" /\ pc'[k] # "idle"

\* C1: in every reachable state, no two data rows of a sheet carry the same
\* id (compared as strings)
C1_UniqueIds ==
    \A s \in SheetNames :
        IdColumn(sheets[s]) # -1 =>
            \A i, j \in 2..Len(sheets[s]) :
                i # j => IdOfRow(sheets[s], i) # IdOfRow(sheets[s], j)

\* C2: the id an insert generates is 1 plus the largest id of the data rows
\* it read (non-numeric ids counting as 0), and 1 when it read no data row.
\* Requests run one after the other here, so the sheet an insert is about to
\* append to is still the sheet it read.
C2_GeneratedId ==
    \A k \in ReqIds :
        /\ pc[k] = "ord_append_order" => loc[k].newId = NextIdOf(sheets["orders"])
        /\ (pc[k] = "ord_append_item" /\ calls[k][Len(calls[k])].kind = "read")
              => PlusOne(loc[k].maxId) = NextIdOf(sheets["order_items"])

\* C3: when an insert has answered with its generated id and nothing else
\* runs, findById of that id answers the record whose id is the generated id
\* and whose other columns are the inserted fields in schema order
C3_InsertThenFind ==
    [][\A k \in ReqIds :
          (pc[k] = "post_append" /\ pc'[k] = "done" /\ resp'[k].status = 201)
          => LET found == GetByIdReply(ValuesGet(sheets'["products"]), resp'[k].id)
             IN  /\ found.status = 200
                 /\ ObjGet(found.rec, K_id) = resp'[k].id
                 /\ ValuesOf(found.rec) = loc[k].row]_vars

\* C4: when updateById(id, F) has succeeded and nothing else runs,
\* findById(id) answers a record that has F's value in every schema column F
\* names and the value from before the update in every other column
C4_UpdateThenFind ==
    [][\A k \in ReqIds :
          (pc[k] = "upd_write" /\ pc'[k] = "done" /\ resp'[k].status = 200)
          => LET before == GetByIdReply(ValuesGet(sheets[req[k].sheet]), req[k].id)
                 after  == GetByIdReply(ValuesGet(sheets'[req[k].sheet]), req[k].id)
                 header == sheets[req[k].sheet][1]
             IN  /\ after.status = 200
                 /\ \A c \in 1..Len(header) :
                       ObjGet(after.rec, JSString(header[c])) =
                           IF ObjHas(req[k].body, JSString(header[c]))
                           THEN ObjGet(req[k].body, JSString(header[c]))
                           ELSE ObjGet(before.rec, JSString(header[c]))]_vars

\* C5: when deleteById(id) has succeeded and nothing else runs, findById(id)
\* answers NotFound
C5_DeleteThenNotFound ==
    [][\A k \in ReqIds :
          (pc[k] = "del_write" /\ pc'[k] = "done" /\ resp'[k].status = 200)
          => GetByIdReply(ValuesGet(sheets'[req[k].sheet]), req[k].id).status = 404]_vars

\* C6: a successful deleteById(id) on a sheet removes exactly the data row of
\* that sheet carrying the id, and leaves every other sheet as it was
C6_DeleteExactlyTheRow ==
    [][\A k \in ReqIds :
          (pc[k] = "del_write" /\ pc'[k] = "done" /\ resp'[k].status = 200)
          => /\ sheets'[req[k].sheet] =
                    RemoveAt(sheets[req[k].sheet], RowOf(sheets[req[k].sheet], req[k].id))
             /\ \A s \in SheetNames \ {req[k].sheet} : sheets'[s] = sheets[s]]_vars

\* C7: the row updateById is about to write carries the id of the row it
\* found, whatever keys the payload has
C7_UpdateKeepsId ==
    \A k \in ReqIds :
        pc[k] = "upd_write"
        => LET sheet == sheets[req[k].sheet]
           IN  JSString(Cell(loc[k].row, IdColumn(sheet))) =
                   IdOfRow(sheet, loc[k].rowInSheet)

\* C8: an update or a delete that reads a sheet with an id column in which no
\* data row carries the id fails with NotFound, issues no call after that
\* read, and leaves the sheets as they were
C8_NotFoundWritesNothing ==
    [][\A k \in ReqIds :
          (/\ Arrives(k)
           /\ req'[k].op \in {"put", "delete"}
           /\ calls'[k][1].ok
           /\ IdColumn(sheets[req'[k].sheet]) # -1
           /\ ~CarriesId(sheets[req'[k].sheet], req'[k].id))
          => /\ pc'[k] = "done"
             /\ resp'[k].status = 500
             /\ resp'[k].err = "NotFound"
             /\ Len(calls'[k]) = 1
             /\ sheets' = sheets]_vars

C8_Witness ==
    \E k \in ReqIds :
        /\ pc[k] = "done"
        /\ req[k].op \in {"put", "delete"}
        /\ resp[k].err = "NotFound"
        /\ Len(calls[k]) = 1
        /\ calls[k][1].ok
        /\ Len(sheets[req[k].sheet]) > 1

\* C9: an update or a delete that reads a sheet with no rows at all, or whose
\* header row has no "id" column, fails with the schema error, issues no call
\* after that read, and leaves the sheets as they were
C9_SchemaErrorWritesNothing ==
    [][\A k \in ReqIds :
          (/\ Arrives(k)
           /\ req'[k].op \in {"put", "delete"}
           /\ calls'[k][1].ok
           /\ IdColumn(sheets[req'[k].sheet]) = -1)
          => /\ pc'[k] = "done"
             /\ resp'[k].status = 500
             /\ resp'[k].err = "SchemaError"
             /\ Len(calls'[k]) = 1
             /\ sheets' = sheets]_vars

C9_Witness ==
    \E k \in ReqIds :
        /\ pc[k] = "done"
        /\ req[k].op \in {"put", "delete"}
        /\ resp[k].err = "SchemaError"
        /\ Len(calls[k]) = 1
        /\ calls[k][1].ok
        /\ IdColumn(sheets[req[k].sheet]) = -1

\* C10: a storage call that fails is the last call of its request: the
\* request is answered with a failure that carries no record and no list, and
\* the call is not issued again
C10_StorageFailureEndsRequest ==
    \A k \in ReqIds :
        \A i \in 1..Len(calls[k]) :
            ~calls[k][i].ok
            => /\ i = Len(calls[k])
               /\ pc[k] = "done"
               /\ resp[k].status = 500
               /\ resp[k].rec = <<>>
               /\ resp[k].list = <<>>
               /\ resp[k].id = Undef

C10_Witness ==
    \E k \in ReqIds :
        /\ pc[k] = "done"
        /\ Len(calls[k]) = 2
        /\ calls[k][1].ok
        /\ ~calls[k][2].ok
        /\ resp[k].status = 500

\* C11: the status of every response follows from its error kind: NotFound
\* gives 404, SchemaError 500, StorageUnavailable 503 and a uniqueness
\* violation 409, on the update and delete endpoints as on the others
C11_StatusOfErrorKind ==
    \A k \in ReqIds :
        pc[k] = "done"
        => /\ resp[k].err = "NotFound" => resp[k].status = 404
           /\ resp[k].err = "SchemaError" => resp[k].status = 500
           /\ resp[k].err = "StorageUnavailable" => resp[k].status = 503
           /\ resp[k].err = "UniquenessViolation" => resp[k].status = 409

\* inserts into products only, interleaving at their awaits
NextRace ==
    \/ ProductsPost
    \/ \E k \in ReqIds : PostAppend(k)

SpecRace == Init /\ [][NextRace]_vars

\* C12: two inserts that are both between their read and their append while
\* the sheet has no data row have both computed id 1, and once both have
\* appended, the rows of both are in the sheet: nothing holds the second
\* append back
C12_StaleReadsBothAppend ==
    \A j, k \in ReqIds :
        j # k =>
            /\ (pc[j] = "post_append" /\ pc[k] = "post_append"
                    /\ Len(sheets["products"]) <= 1)
                => (loc[j].newId = Num(1) /\ loc[k].newId = Num(1))
            /\ (pc[j] = "done" /\ pc[k] = "done"
                    /\ resp[j].status = 201 /\ resp[k].status = 201
                    /\ resp[j].id = resp[k].id)
                => \E a, b \in 1..Len(sheets["products"]) :
                       /\ a # b
                       /\ sheets["products"][a] = loc[j].row
                       /\ sheets["products"][b] = loc[k].row

\* two inserts into the header-only sheet were both answered 201 with id 1,
\* and the two data rows of the sheet both carry id 1
C12_Witness ==
    /\ Len(sheets["products"]) = 3
    /\ sheets["products"][1] = ProductsHeader
    /\ IdOfRow(sheets["products"], 2) = "1"
    /\ IdOfRow(sheets["products"], 3) = "1"
    /\ \E j, k \in ReqIds :
           /\ j # k
           /\ pc[j] = "done" /\ resp[j].status = 201 /\ resp[j].id = Num(1)
           /\ pc[k] = "done" /\ resp[k].status = 201 /\ resp[k].id = Num(1)

\* updates and deletes of products, interleaving at their awaits, on a sheet
\* long enough for a row to have rows before and after it
InitShift ==
    /\ InitRequests
    /\ tabs \in {<<"products", "orders", "order_items">>,
                 <<"orders", "products", "order_items">>}
    /\ sheets = [s \in SheetNames |->
                    IF s = "products" THEN <<ProductsHeader>> \o SeedRows(MaxInitRows + 1)
                    ELSE IF s = "orders" THEN SeedOrders
                    ELSE IF s = "order_items" THEN <<OrderItemsHeader>>
                    ELSE SeedSheet(s)]

NextShift ==
    \/ ProductsPut
    \/ ProductsDelete
    \/ \E k \in ReqIds : UpdateWrite(k)
    \/ \E k \in ReqIds : DeleteWrite(k)

SpecShift == InitShift /\ [][NextShift]_vars

\* C13: the write of an update or a delete goes to the row position computed
\* at its read, whatever the sheet holds there by now: an update leaves every
\* other position as it is and puts the requested id at that position, a
\* delete removes the row at that position of the sheet it addresses
C13_WriteGoesToReadPosition ==
    [][\A k \in ReqIds :
          /\ (pc[k] = "upd_write" /\ pc'[k] = "done" /\ resp'[k].status = 200
                  /\ loc[k].rowInSheet <= Len(sheets[req[k].sheet]))
              => /\ Len(sheets'[req[k].sheet]) = Len(sheets[req[k].sheet])
                 /\ \A i \in 1..Len(sheets[req[k].sheet]) :
                       i # loc[k].rowInSheet
                           => sheets'[req[k].sheet][i] = sheets[req[k].sheet][i]
                 /\ IdOfRow(sheets'[req[k].sheet], loc[k].rowInSheet) = JSString(req[k].id)
          /\ (pc[k] = "del_write" /\ pc'[k] = "done" /\ resp'[k].status = 200
                  /\ loc[k].rowInSheet <= Len(sheets[tabs[1]]))
              => sheets'[tabs[1]] = RemoveAt(sheets[tabs[1]], loc[k].rowInSheet)]_vars

\* a delete of id 1 completed between the read and the write of the update of
\* id 3: the update overwrote the row of id 5, which nobody asked to change
C13_Witness ==
    \E j, k \in ReqIds :
        /\ pc[j] = "done" /\ req[j].op = "delete" /\ req[j].id = Str("1")
        /\ resp[j].status = 200
        /\ pc[k] = "done" /\ req[k].op = "put" /\ req[k].id = Str("3")
        /\ resp[k].status = 200
        /\ Len(sheets["products"]) = 3
        /\ IdOfRow(sheets["products"], 2) = "3"
        /\ IdOfRow(sheets["products"], 3) = "3"
        /\ ~CarriesId(sheets["products"], Num(5))

\* updates of and inserts into products, interleaving at their awaits
NextPutPost ==
    \/ ProductsPut
    \/ ProductsPost
    \/ \E k \in ReqIds : UpdateWrite(k)
    \/ \E k \in ReqIds : PostAppend(k)

SpecPutPost == Init /\ [][NextPutPost]_vars

\* an insert of request j completed after the read of update k, whose write
\* is still to come
InsertBetween(j, k) ==
    /\ pc[k] = "upd_write"
    /\ pc[j] = "done" /\ req[j].op = "post" /\ resp[j].status = 201

\* the write of update k succeeds and leaves a row other than the one at
\* its position, or a row of another id at its position
LandsElsewhere(k) ==
    /\ UpdateWrite(k)
    /\ resp'[k].status = 200
    /\ \/ loc[k].rowInSheet > Len(sheets[req[k].sheet])
       \/ IdOfRow(sheets[req[k].sheet], loc[k].rowInSheet) # JSString(req[k].id)
       \/ \E i \in 1..Len(sheets[req[k].sheet]) :
              i # loc[k].rowInSheet /\ sheets'[req[k].sheet][i] # sheets[req[k].sheet][i]

\* C14 as stated: when an insert into the sheet has completed between the
\* read and the write of an update, the update can land on a row other than
\* the one whose id matched at the read
C14_InsertCanMisplaceUpdate ==
    \A j, k \in ReqIds : InsertBetween(j, k) => ENABLED LandsElsewhere(k)

\* C14, amended: while only inserts and updates run, the row at the position
\* an update computed at its read still carries the requested id when the
\* write comes: an append adds its row after the last row and moves no row
C14_InsertLeavesUpdateInPlace ==
    \A k \in ReqIds :
        pc[k] = "upd_write"
        => /\ loc[k].rowInSheet <= Len(sheets[req[k].sheet])
           /\ IdOfRow(sheets[req[k].sheet], loc[k].rowInSheet) = JSString(req[k].id)

\* an insert has completed between the read and the write of an update
C14_Witness ==
    \E j, k \in ReqIds :
        /\ InsertBetween(j, k)
        /\ sheets[req[j].sheet][Len(sheets[req[j].sheet])] = loc[j].row

\* the number of item rows request k has appended
ItemsAppended(k) ==
    Cardinality({i \in 1..Len(calls[k]) :
                    /\ calls[k][i].kind = "append"
                    /\ calls[k][i].sheet = "order_items"
                    /\ calls[k][i].ok})

\* request k has appended its orders row
OrderRowAppended(k) ==
    \E i \in 1..Len(calls[k]) :
        calls[k][i].kind = "append" /\ calls[k][i].sheet = "orders" /\ calls[k][i].ok

\* C15: an order creation that has appended its orders row and then ends with
\* an error leaves that row as the last row of orders and the item rows it
\* appended, fewer than the items of the order, as the last rows of
\* order_items: nothing is taken back
C15_NoRollback ==
    \A k \in ReqIds :
        (pc[k] = "done" /\ req[k].op = "order" /\ resp[k].status = 500
            /\ OrderRowAppended(k))
        => LET orders == sheets["orders"]
               items  == sheets["order_items"]
               m      == ItemsAppended(k)
           IN  /\ orders[Len(orders)] = loc[k].row
               /\ m < Len(req[k].body)
               /\ m <= Len(items)
               /\ \A i \in (Len(items) - m + 1)..Len(items) :
                      Cell(items[i], 1) = loc[k].newId

\* an order of two items failed at the append of its second item: the orders
\* row and the first item row are in storage
C15_Witness ==
    \E k \in ReqIds :
        /\ pc[k] = "done" /\ req[k].op = "order" /\ resp[k].status = 500
        /\ Len(req[k].body) = 2
        /\ OrderRowAppended(k)
        /\ ItemsAppended(k) = 1
        /\ sheets["orders"][Len(sheets["orders"])] = loc[k].row
        /\ Cell(sheets["order_items"][Len(sheets["order_items"])], 1) = loc[k].newId

\* order creation and the two order reads, interleaving at their awaits
NextOrdersRead ==
    \/ OrdersPost
    \/ OrdersGet
    \/ OrdersList
    \/ \E k \in ReqIds : OrdReadOrders(k)
    \/ \E k \in ReqIds : OrdAppendOrder(k)
    \/ \E k \in ReqIds : OrdReadItems(k)
    \/ \E k \in ReqIds : OrdAppendItem(k)
    \/ \E k \in ReqIds : OrdGetItems(k)
    \/ \E k \in ReqIds : OrdListItems(k)

SpecOrdersRead == InitOrders /\ [][NextOrdersRead]_vars

\* an answer showing `shown` items for the order `order` shows all or none
\* of the items of every order creation that made that order and has not
\* failed
AllOrNone(order, shown) ==
    \A j \in ReqIds :
        (/\ req[j].op = "order"
         /\ OrderRowAppended(j)
         /\ resp[j].status # 500
         /\ JSString(loc[j].newId) = JSString(ObjGet(order, K_id)))
        => (Len(shown) = 0 \/ Len(shown) >= Len(req[j].body))

\* C16: no successful answer of GET /api/orders/:id or GET /api/orders shows
\* an order with only some of the items its creation appends
C16_NoPartialOrder ==
    \A k \in ReqIds :
        (pc[k] = "done" /\ resp[k].status = 200)
        => /\ req[k].op = "order_get" => AllOrNone(resp[k].rec, resp[k].list)
           /\ req[k].op = "order_list"
                  => \A i \in 1..Len(resp[k].list) :
                         AllOrNone(resp[k].list[i].order, resp[k].list[i].items)

\* the inserts with a uniqueness pre-check, interleaving at their awaits
InitUnique ==
    /\ InitRequests
    /\ tabs = <<"products", "orders", "order_items">>
    /\ \E u \in {<<UsersHeader>>, SeedUsers}, p \in {<<ProductsHeader>>, <<ProductsHeader>> \o SeedRows(1)},
          n \in {<<PlansHeader>>, SeedPlans} :
           sheets = [s \in SheetNames |->
                        IF s = "users" THEN u
                        ELSE IF s = "products" THEN p
                        ELSE IF s = "nutrition_plans" THEN n
                        ELSE IF s = "orders" THEN SeedOrders
                        ELSE IF s = "order_items" THEN <<OrderItemsHeader>>
                        ELSE SeedSheet(s)]

NextUnique ==
    \/ Register
    \/ ProductsPost
    \/ PlansPost
    \/ \E k \in ReqIds : RegAppend(k)
    \/ \E k \in ReqIds : PostAppend(k)

SpecUnique == InitUnique /\ [][NextUnique]_vars

\* the value of column `key` in data row i of a sheet
Field(sheet, i, key) == Cell(sheet[i], IndexOf(sheet[1], Str(key)))

\* some data row of the sheet has `value` in column `key`
FieldTaken(sheet, key, value) ==
    \E i \in 2..Len(sheet) : Field(sheet, i, key) = value

\* the sheet read by the insert rq holds a record with rq's unique field
UniqueFieldTaken(sheet, rq) ==
    IF rq.op = "register"
    THEN \/ FieldTaken(sheet, K_email, ObjGet(rq.body, K_email))
         \/ FieldTaken(sheet, K_username, ObjGet(rq.body, K_username))
    ELSE FieldTaken(sheet, K_name, ObjGet(rq.body, K_name))

\* C17: an insert whose read succeeds on a sheet holding a record with the
\* same email or username (users) or the same name (products,
\* nutrition_plans) is answered with the uniqueness violation, issues no call
\* after that read and leaves the sheets as they were
C17_DuplicateRejected ==
    [][\A k \in ReqIds :
          (/\ Arrives(k)
           /\ req'[k].op \in {"register", "post", "plan_post"}
           /\ Len(calls'[k]) > 0
           /\ calls'[k][1].ok
           /\ UniqueFieldTaken(sheets[req'[k].sheet], req'[k]))
          => /\ pc'[k] = "done"
             /\ resp'[k].status = 409
             /\ resp'[k].err = "UniquenessViolation"
             /\ Len(calls'[k]) = 1
             /\ sheets' = sheets]_vars

\* a registration was refused because its email or username is taken
C17_Witness ==
    \E k \in ReqIds :
        /\ pc[k] = "done" /\ req[k].op = "register"
        /\ resp[k].status = 409
        /\ Len(calls[k]) = 1
        /\ UniqueFieldTaken(sheets["users"], req[k])

\* C18: nothing ties the pre-check of a registration to its append: a
\* registration that passed the check at its read appends its row and is
\* answered 201 whenever the append call succeeds, whatever the users sheet
\* holds by then
C18_AppendAfterStaleCheck ==
    [][\A k \in ReqIds :
          (pc[k] = "reg_append" /\ pc'[k] = "done" /\ calls'[k][Len(calls'[k])].ok)
          => /\ resp'[k].status = 201
             /\ sheets'["users"] = Append(sheets["users"], loc[k].row)]_vars

\* two registrations with the same email were both answered 201 and two data
\* rows of users share that email
C18_Witness ==
    \E j, k \in ReqIds :
        /\ j # k
        /\ req[j].op = "register" /\ pc[j] = "done" /\ resp[j].status = 201
        /\ req[k].op = "register" /\ pc[k] = "done" /\ resp[k].status = 201
        /\ ObjGet(req[j].body, K_email) = ObjGet(req[k].body, K_email)
        /\ \E a, b \in 2..Len(sheets["users"]) :
               /\ a # b
               /\ sheets["users"][1] = UsersHeader
               /\ Field(sheets["users"], a, K_email) = ObjGet(req[j].body, K_email)
               /\ Field(sheets["users"], b, K_email) = ObjGet(req[j].body, K_email)

\* products rows in which the text id "7" follows the numeric id 7
DupRows ==
    << <<Num(7), Tea, Num(4), Bool(TRUE)>>,
       <<Str("7"), Str("P2"), Num(5), Bool(FALSE)>>,
       <<Num(1), Str("P3"), Num(6), Bool(TRUE)>>,
       <<Str("7"), Str("P4"), Num(7), Bool(TRUE)>> >>

\* reads, updates and deletes of products, one request after the other, on a
\* sheet where several rows carry the same id
InitDup ==
    /\ InitRequests
    /\ tabs \in {<<"products", "orders", "order_items">>,
                 <<"orders", "products", "order_items">>}
    /\ \E n \in 1..(MaxInitRows + 1) :
           sheets = [s \in SheetNames |->
                        IF s = "products" THEN <<ProductsHeader>> \o SubSeq(DupRows, 1, n)
                        ELSE IF s = "orders" THEN SeedOrders
                        ELSE IF s = "order_items" THEN <<OrderItemsHeader>>
                        ELSE SeedSheet(s)]

NextDup ==
    \/ Quiet /\ ProductsGet
    \/ Quiet /\ ProductsPut
    \/ Quiet /\ ProductsDelete
    \/ \E k \in ReqIds : UpdateWrite(k)
    \/ \E k \in ReqIds : DeleteWrite(k)

SpecDup == InitDup /\ [][NextDup]_vars

\* the record of data row i of a sheet
RecordOf(sheet, i) == rowsToObjects(<<sheet[1], sheet[i]>>)[1]

\* C19: ids are compared as strings and the first matching data row in sheet
\* order is the one selected.  A findById answers the record of that row, or
\* not found when no row matches; an update or a delete computes the position
\* of that row, or fails with NotFound; the write of an update leaves every
\* other row as it was, and after a delete every row of the sheet other than
\* that one is still there
C19_FirstMatchAsStrings ==
    [][\A k \in ReqIds :
          LET rq    == req'[k]
              sheet == sheets[rq.sheet]
          IN  /\ (Arrives(k) /\ calls'[k][1].ok /\ rq.op = "get")
                  => IF CarriesId(sheet, rq.id)
                     THEN /\ resp'[k].status = 200
                          /\ resp'[k].rec = RecordOf(sheet, RowOf(sheet, rq.id))
                     ELSE resp'[k].status = 404
              /\ (Arrives(k) /\ calls'[k][1].ok /\ rq.op \in {"put", "delete"})
                  => IF CarriesId(sheet, rq.id)
                     THEN /\ pc'[k] \in {"upd_write", "del_write"}
                          /\ loc'[k].rowInSheet = RowOf(sheet, rq.id)
                     ELSE resp'[k].err = "NotFound"
              /\ (pc[k] = "upd_write" /\ pc'[k] = "done")
                  => \A i \in 1..Len(sheet) :
                         i # RowOf(sheet, rq.id) => sheets'[rq.sheet][i] = sheet[i]
              /\ (pc[k] = "del_write" /\ pc'[k] = "done")
                  => sheets'[rq.sheet] \in {sheet, RemoveAt(sheet, RowOf(sheet, rq.id))}]_vars

\* the text id "7" was looked up on a sheet whose first row carries the
\* numeric id 7 and a later row the text id "7", and the first row was taken
C19_Witness ==
    \E k \in ReqIds :
        /\ req[k].id = Str("7")
        /\ Len(sheets["products"]) >= 3
        /\ sheets["products"][2] [1] = Num(7)
        /\ sheets["products"][3] [1] = Str("7")
        /\ \/ pc[k] = "upd_write" /\ loc[k].rowInSheet = 2
           \/ pc[k] = "done" /\ req[k].op = "get" /\ resp[k].status = 200
                /\ ObjGet(resp[k].rec, K_name) = Tea

\* header rows and data rows of differing lengths
ListHeaders == {ProductsHeader, NoIdHeader, <<Str(K_id), Str(K_name)>>}
ListRows == {SeedProduct(1), <<Str("3")>>, <<>>}

\* GET /api/products on sheets with no row, with a header only, and with
\* rows shorter and longer than the header
InitList ==
    /\ InitRequests
    /\ tabs = <<"products", "orders", "order_items">>
    /\ \E p \in {<<>>} \cup
                {<<h>> \o rows : h \in ListHeaders,
                                 rows \in UNION {[1..n -> ListRows] : n \in 0..MaxInitRows}} :
           sheets = [s \in SheetNames |->
                        IF s = "products" THEN p
                        ELSE IF s = "orders" THEN SeedOrders
                        ELSE IF s = "order_items" THEN <<OrderItemsHeader>>
                        ELSE SeedSheet(s)]

NextList == ProductsList

SpecList == InitList /\ [][NextList]_vars

\* C20: a list request whose read succeeds is answered 200; the list is
\* empty when the sheet has no row or only its header row; otherwise it has one record per data row, in row
\* order, whose keys are the header's column names and whose value under a
\* column name is the row's cell in that column, or undefined when the row
\* is shorter
C20_OneRecordPerDataRow ==
    \A k \in ReqIds :
        (pc[k] = "done" /\ req[k].op = "list" /\ calls[k][1].ok)
        => LET sheet == sheets["products"]
               list  == resp[k].list
           IN  IF Len(sheet) <= 1 THEN resp[k].status = 200 /\ list = <<>>
               ELSE /\ resp[k].status = 200
                    /\ Len(list) = Len(sheet) - 1
                    /\ \A i \in 1..Len(list) :
                          /\ Len(list[i]) = Len(sheet[1])
                          /\ \A c \in 1..Len(sheet[1]) :
                                /\ list[i][c][1] = JSString(sheet[1][c])
                                /\ list[i][c][2] = Cell(sheet[i + 1], c - 1)

\* a list was answered for a sheet whose second data row is shorter than the
\* header: its record has undefined under the last column
C20_Witness ==
    \E k \in ReqIds :
        /\ pc[k] = "done" /\ req[k].op = "list" /\ resp[k].status = 200
        /\ Len(sheets["products"]) = 3
        /\ Len(resp[k].list) = 2
        /\ Len(sheets["products"][3]) < Len(sheets["products"][1])
        /\ resp[k].list[2][Len(sheets["products"][1])][2] = Undef

\* no two data rows of the sheet carry the same id (compared as strings)
IdsUnique(sheet) ==
    IdColumn(sheet) # -1 =>
        \A i, j \in 2..Len(sheet) : i # j => IdOfRow(sheet, i) # IdOfRow(sheet, j)

\* C21: while requests do not overlap, no step takes a sheet whose ids are
\* unique to a sheet in which two data rows carry the same id
C21_SequentialStepsKeepIdsUnique ==
    [][\A s \in SheetNames : IdsUnique(sheets[s]) => IdsUnique(sheets'[s])]_vars

\* C22: under any interleaving of inserts, updates and deletes, no step
\* changes or removes row 1 of a sheet that has rows: the header row stays
\* what it was
C22_HeaderRowStays ==
    [][\A s \in SheetNames :
          Len(sheets[s]) > 0
          => (Len(sheets'[s]) > 0 /\ sheets'[s][1] = sheets[s][1])]_vars

\* an update and a delete, both aimed at the row right under the header of
\* products, have both written, and the header is still row 1
C22_Witness ==
    /\ tabs[1] = "products"
    /\ Len(sheets["products"]) > 0
    /\ sheets["products"][1] = ProductsHeader
    /\ \E j, k \in ReqIds :
           /\ pc[j] = "done" /\ req[j].op = "put" /\ resp[j].status = 200
           /\ loc[j].rowInSheet = 2
           /\ pc[k] = "done" /\ req[k].op = "delete" /\ resp[k].status = 200
           /\ loc[k].rowInSheet = 2

\* C23: while only updates and deletes run, once a delete of an id has been
\* answered 200 and no row of the sheet carries that id, no later step puts
\* a row carrying it into the sheet
C23_DeletedStaysDeleted ==
    [][\A j \in ReqIds :
          (/\ pc[j] = "done" /\ req[j].op = "delete" /\ resp[j].status = 200
           /\ ~CarriesId(sheets[req[j].sheet], req[j].id))
          => ~CarriesId(sheets'[req[j].sheet], req[j].id)]_vars

\* order creation and order deletion, one request after the other, on sheets
\* in which every item refers to an order; the tab order varies
InitOrdersDel ==
    /\ InitRequests
    /\ tabs \in {<<"order_items", "orders", "products">>,
                 <<"orders", "order_items", "products">>,
                 <<"products", "orders", "order_items">>}
    /\ \E n \in 1..3 :
           sheets = [s \in SheetNames |->
                        IF s = "products" THEN <<ProductsHeader>> \o SeedRows(MaxInitRows)
                        ELSE IF s = "orders" THEN SubSeq(SeedOrders, 1, n + 1)
                        ELSE IF s = "order_items" THEN SubSeq(SeedOrderItems, 1, n + 1)
                        ELSE SeedSheet(s)]

NextOrdersDel ==
    \/ Quiet /\ OrdersPost
    \/ Quiet /\ OrdersDelete
    \/ \E k \in ReqIds : OrdReadOrders(k)
    \/ \E k \in ReqIds : OrdAppendOrder(k)
    \/ \E k \in ReqIds : OrdReadItems(k)
    \/ \E k \in ReqIds : OrdAppendItem(k)
    \/ \E k \in ReqIds : OrdDelItemRead(k)
    \/ \E k \in ReqIds : OrdDelItemWrite(k)
    \/ \E k \in ReqIds : OrdDelOrderRead(k)
    \/ \E k \in ReqIds : DeleteWrite(k)

SpecOrdersDel == InitOrdersDel /\ [][NextOrdersDel]_vars

\* every row of order_items carries the id of a row of orders as its order_id
ItemsReferToOrders(orders, items) ==
    \A i \in 2..Len(items) : CarriesId(orders, Field(items, i, K_order_id))

\* the rows of order_items that belong to an order other than `id`
RECURSIVE ItemsOfOtherOrders(_, _, _)
ItemsOfOtherOrders(items, i, id) ==
    IF i > Len(items) THEN <<>>
    ELSE (IF JSString(Field(items, i, K_order_id)) # JSString(id)
          THEN <<items[i]>> ELSE <<>>)
         \o ItemsOfOtherOrders(items, i + 1, id)

\* C24: while requests do not overlap, storage failures included, every step
\* leaves every row of order_items referring to a row of orders; a step of a
\* DELETE /api/orders/:id leaves the item rows of every other order as they
\* are, and the step that answers 200 leaves no item row of the order
C24_ItemsFollowTheirOrder ==
    [][/\ ItemsReferToOrders(sheets["orders"], sheets["order_items"])
          => ItemsReferToOrders(sheets'["orders"], sheets'["order_items"])
       /\ \A k \in ReqIds :
              (req[k].op = "order_delete" /\ pc[k] \notin {"idle", "done", "gone"})
              => /\ ItemsOfOtherOrders(sheets'["order_items"], 2, req[k].id)
                        = ItemsOfOtherOrders(sheets["order_items"], 2, req[k].id)
                 /\ (pc'[k] = "done" /\ resp'[k].status = 200)
                        => \A i \in 2..Len(sheets'["order_items"]) :
                               JSString(Field(sheets'["order_items"], i, K_order_id))
                                   # JSString(req[k].id)]_vars

\* updates and deletes of appointments by the clients and the administrator,
\* interleaving at their awaits; appointments is the first tab
InitAppointments ==
    /\ InitRequests
    /\ tabs = <<"appointments", "products", "orders">>
    /\ sheets = [s \in SheetNames |->
                    IF s = "products" THEN <<ProductsHeader>> \o SeedRows(1)
                    ELSE IF s = "orders" THEN SeedOrders
                    ELSE IF s = "order_items" THEN SeedOrderItems
                    ELSE IF s = "appointments"
                    THEN <<AppointmentsHeader>> \o SeedAppointments(MaxInitRows + 1)
                    ELSE SeedSheet(s)]

NextAppointments ==
    \/ AppointmentsPut
    \/ AppointmentsDelete
    \/ \E k \in ReqIds : ApptUpdRead(k)
    \/ \E k \in ReqIds : ApptDelRead(k)
    \/ \E k \in ReqIds : UpdateWrite(k)
    \/ \E k \in ReqIds : DeleteWrite(k)

SpecAppointments == InitAppointments /\ [][NextAppointments]_vars

\* the rows of appointments booked by a user other than `userId`, from row i
\* on, in sheet order
RECURSIVE RowsOfOthers(_, _, _)
RowsOfOthers(sheet, i, userId) ==
    IF i > Len(sheet) THEN <<>>
    ELSE (IF Len(sheet[i]) > 0 /\ JSString(Field(sheet, i, K_user_id)) # JSString(userId)
          THEN <<sheet[i]>> ELSE <<>>)
         \o RowsOfOthers(sheet, i + 1, userId)

\* C25: under any interleaving, the write of a PUT or DELETE on
\* /api/appointments/:id sent with a client's token leaves the appointments
\* rows of every other user as they are
C25_ClientWritesOwnRowsOnly ==
    [][\A k \in ReqIds :
          (/\ req[k].op \in {"appt_put", "appt_delete"}
           /\ req[k].user.role = "client"
           /\ pc[k] \in {"upd_write", "del_write"}
           /\ pc'[k] = "done")
          => RowsOfOthers(sheets'["appointments"], 2, req[k].user.id)
                 = RowsOfOthers(sheets["appointments"], 2, req[k].user.id)]_vars

\* C26: while requests do not overlap, an insert that follows a delete
\* answered 200 does not generate the id of the record deleted (every row of
\* a sheet got its id from the insert that made it)
C26_DeletedIdNotGeneratedAgain ==
    [][\A j, k \in ReqIds :
          (/\ pc[j] = "done" /\ req[j].op = "delete" /\ resp[j].status = 200
           /\ Arrives(k)
           /\ req'[k].op = "post" /\ req'[k].sheet = req[j].sheet
           /\ pc'[k] = "post_append")
          => JSString(loc'[k].newId) # JSString(req[j].id)]_vars

\* registrations, updates and deletes of users, one request after the other;
\* users is the first tab and starts with distinct emails and usernames
InitUsers ==
    /\ InitRequests
    /\ tabs = <<"users", "products", "orders">>
    /\ \E n \in 0..MaxInitRows :
           sheets = [s \in SheetNames |->
                        IF s = "users" THEN <<UsersHeader>> \o SeedUserRows(n)
                        ELSE IF s = "products" THEN <<ProductsHeader>> \o SeedRows(1)
                        ELSE IF s = "orders" THEN SeedOrders
                        ELSE IF s = "order_items" THEN SeedOrderItems
                        ELSE SeedSheet(s)]

NextUsers ==
    \/ Quiet /\ Register
    \/ Quiet /\ UsersPut
    \/ Quiet /\ UsersDelete
    \/ \E k \in ReqIds : RegAppend(k)
    \/ \E k \in ReqIds : UpdateWrite(k)
    \/ \E k \in ReqIds : DeleteWrite(k)

SpecUsers == InitUsers /\ [][NextUsers]_vars

\* C27: while requests do not overlap, in every reachable state no two rows
\* of users hold the same email and no two hold the same username
C27_UsersStayDistinct ==
    \A i, j \in 2..Len(sheets["users"]) :
        i # j => /\ Field(sheets["users"], i, K_email) # Field(sheets["users"], j, K_email)
                 /\ Field(sheets["users"], i, K_username)
                        # Field(sheets["users"], j, K_username)

=============================================================================
